---- MODULE Spec2Model ----
(***************************************************************************)
(* The history-augmented LRU-K cache of geecache/lru (lru.Cache): a main   *)
(* LRU queue and a FIFO history queue, both under one byte budget, with    *)
(* promotion from history into main after k observations.                  *)
(*                                                                         *)
(* A list.List is a sequence of entries, index 1 = Front.  A map from key  *)
(* to *list.Element is the set of keys it holds; the element it maps a key *)
(* to is the element of the list that carries that key.                    *)
(*                                                                         *)
(* A call is one atomic step (the cache is used under the shard's lock). A *)
(* run-time panic inside a call leaves the object as the statements before *)
(* it wrote it and ends the run: nothing in lru or its callers recovers.   *)
(***************************************************************************)
EXTENDS Integers, Sequences, FiniteSets, TLC

\* ------------------------------------------------------------- bounds
NumKeys == 3
MaxValLen == 1
MaxBytesBound == 3
MaxK == 3

\* Keys are distinct strings; key 1 is a long key ("key1"), the others are
\* short ("k2", "k3", ...), as in TestOnEvicted.
Keys == 1..NumKeys
KeyLen(key) == IF key = 1 THEN 2 ELSE 1

\* Values are String values: the empty string and a string of MaxValLen bytes.
Values == {<<>>, [i \in 1..MaxValLen |-> 1]}
ValueLen(value) == Len(value)

\* The nil interface value: what a named result `value Value` holds until it
\* is assigned.  It is no String; calling Len() on it panics.
NilValue == <<0>>

Entry(key, value) == [key |-> key, value |-> value]

\* ------------------------------------------------- container/list
PushFront(l, e) == <<e>> \o l
PushBack(l, e) == Append(l, e)
RemoveAt(l, i) == SubSeq(l, 1, i - 1) \o SubSeq(l, i + 1, Len(l))
\* the position of the element a map holds for key
IndexOf(l, key) == CHOOSE i \in 1..Len(l) : l[i].key = key /\ \A j \in 1..(i - 1) : l[j].key # key
MoveToFront(l, i) == <<l[i]>> \o RemoveAt(l, i)
MoveToBack(l, i) == Append(RemoveAt(l, i), l[i])
Front(l) == l[1]
Back(l) == l[Len(l)]

\* a map read of a missing key yields the zero value
CntGet(cnt, key) == IF key \in DOMAIN cnt THEN cnt[key] ELSE 0
CntInc(cnt, key) == [x \in (DOMAIN cnt) \cup {key} |-> IF x = key THEN CntGet(cnt, key) + 1 ELSE cnt[x]]
CntDelete(cnt, key) == [x \in (DOMAIN cnt) \ {key} |-> cnt[x]]

\* ------------------------------------------------- history variables
\* (not program state: they record what happened, for the properties)
Without(s, key) == SelectSeq(s, LAMBDA x : x # key)
Touch(s, key) == Append(Without(s, key), key)
HeadOr0(s) == IF s = <<>> THEN 0 ELSE Head(s)

VARIABLES
    c,        \* the lru.Cache object
    evicted,  \* the OnEvicted invocations of the last call, in order: <<key, value>>
    status,   \* "ok", or "panic" once a call has panicked (the program is gone)
    ret,      \* what the last call returned: [value, ok]
    last,     \* the last call: [op, key]
    aux,      \* history variables
    plain,    \* the plain LRU cache given the same calls (mode "pair")
    http,     \* the HTTPPool's handler and the last request it served (mode "http")
    shard,    \* one cache shard and the goroutines calling it (mode "shard")
    reg       \* one HTTPPool's peer registry and the workers using it (mode "reg")

vars == <<c, evicted, status, ret, last, aux, plain, http, shard, reg>>
\* the variables of the lru package, and those of the peer layer
lruVars == <<c, evicted, status, ret, last, aux, plain>>
peerVars == <<http, shard, reg>>

\* New(maxBytes, onEvicted, k): both queues get the same maxBytes.
New(maxBytes, k) ==
    [maxBytes |-> maxBytes,
     useBytes |-> 0,
     ll |-> <<>>,
     mp |-> {},
     OnEvicted |-> TRUE,
     historyCache |-> [k |-> k, maxBytes |-> maxBytes, useBytes |-> 0,
                       ll |-> <<>>, mp |-> {}, cnt |-> <<>>]]

NoRet == [value |-> NilValue, ok |-> FALSE]
NoWrite == [value |-> NilValue, again |-> FALSE]

AuxInit ==
    [removed |-> <<>>,   \* budget-driven removals of the last call, in order
     promo |-> <<>>,     \* insertions into the main queue during the last call
     path |-> "new",     \* the branch the last call took
     obs |-> [x \in Keys |-> 0],  \* observations in the current history residence
     age |-> <<>>,       \* main-queue keys, least recently accessed first
     ins |-> <<>>,       \* history keys, oldest insertion first (mode "fifo")
     touch |-> <<>>,     \* history keys, least recently inserted-or-hit first
     written |-> [x \in Keys |-> NoWrite],  \* the last Add of each key (mode "rw")
     mode |-> "base"]    \* which of ins / written this specification records

\* RemoveCacheOldest that forgets the callback
RemoveCacheOldest_NoCallback(m) ==
    IF m.c.ll = <<>> THEN m
    ELSE LET kv == Back(m.c.ll)
         IN [m EXCEPT
               !.c.ll = RemoveAt(@, Len(@)),
               !.c.mp = @ \ {kv.key},
               !.c.useBytes = @ - (ValueLen(kv.value) + KeyLen(kv.key)),
               !.aux.removed = Append(@, [queue |-> "main", key |-> kv.key, value |-> kv.value,
                                          lru |-> HeadOr0(m.aux.age), ins |-> 0, touch |-> 0]),
               !.aux.age = Without(@, kv.key)]

\* RemoveCacheOldest: drop the Back of the main list.
RemoveCacheOldest(m) ==
    IF m.c.ll = <<>> THEN m
    ELSE LET kv == Back(m.c.ll)
         IN [m EXCEPT
               !.c.ll = RemoveAt(@, Len(@)),
               !.c.mp = @ \ {kv.key},
               !.c.useBytes = @ - (ValueLen(kv.value) + KeyLen(kv.key)),
               !.evicted = IF m.c.OnEvicted THEN Append(@, <<kv.key, kv.value>>) ELSE @,
               !.aux.removed = Append(@, [queue |-> "main", key |-> kv.key, value |-> kv.value,
                                          lru |-> HeadOr0(m.aux.age), ins |-> 0, touch |-> 0]),
               !.aux.age = Without(@, kv.key)]

\* RemoveHistoryCacheOldest that leaves the evicted key's hit counter behind
RemoveHistoryCacheOldest_KeepCnt(m) ==
    IF m.c.historyCache.ll = <<>> THEN m
    ELSE LET kv == Front(m.c.historyCache.ll)
         IN [m EXCEPT
               !.c.historyCache.ll = RemoveAt(@, 1),
               !.c.historyCache.mp = @ \ {kv.key},
               !.c.historyCache.useBytes = @ - (ValueLen(kv.value) + KeyLen(kv.key)),
               !.evicted = IF m.c.OnEvicted THEN Append(@, <<kv.key, kv.value>>) ELSE @,
               !.aux.removed = Append(@, [queue |-> "history", key |-> kv.key, value |-> kv.value,
                                          lru |-> 0, ins |-> HeadOr0(m.aux.ins),
                                          touch |-> HeadOr0(m.aux.touch)]),
               !.aux.obs[kv.key] = 0,
               !.aux.ins = Without(@, kv.key),
               !.aux.touch = Without(@, kv.key)]

\* RemoveHistoryCacheOldest: drop the Front of the history list.
RemoveHistoryCacheOldest(m) ==
    IF m.c.historyCache.ll = <<>> THEN m
    ELSE LET kv == Front(m.c.historyCache.ll)
         IN [m EXCEPT
               !.c.historyCache.ll = RemoveAt(@, 1),
               !.c.historyCache.mp = @ \ {kv.key},
               !.c.historyCache.cnt = CntDelete(@, kv.key),
               !.c.historyCache.useBytes = @ - (ValueLen(kv.value) + KeyLen(kv.key)),
               !.evicted = IF m.c.OnEvicted THEN Append(@, <<kv.key, kv.value>>) ELSE @,
               !.aux.removed = Append(@, [queue |-> "history", key |-> kv.key, value |-> kv.value,
                                          lru |-> 0, ins |-> HeadOr0(m.aux.ins),
                                          touch |-> HeadOr0(m.aux.touch)]),
               !.aux.obs[kv.key] = 0,
               !.aux.ins = Without(@, kv.key),
               !.aux.touch = Without(@, kv.key)]

\* the loop of AddToCache: for c.maxBytes != 0 && c.maxBytes < c.useBytes
RECURSIVE EvictLoop(_)
EvictLoop(m) ==
    IF m.c.maxBytes # 0 /\ m.c.maxBytes < m.c.useBytes
    THEN IF m.c.ll = <<>> THEN [m EXCEPT !.status = "hang"]
         ELSE EvictLoop(RemoveCacheOldest(m))
    ELSE m

\* AddToCache(key, value): PushFront, index, then value.Len() for the byte
\* count, which panics on the nil interface value before useBytes is written.
AddToCache(m, key, value) ==
    LET m1 == [m EXCEPT
                 !.c.ll = PushFront(@, Entry(key, value)),
                 !.c.mp = @ \cup {key},
                 !.aux.promo = Append(@, [key |-> key, seen |-> m.aux.obs[key]]),
                 !.aux.age = Touch(@, key)]
    IN IF value = NilValue
       THEN [m1 EXCEPT !.status = "panic"]
       ELSE EvictLoop([m1 EXCEPT !.c.useBytes = @ + KeyLen(key) + ValueLen(value)])

\* the removal of a promoted entry that gives back the value's bytes only
RemoveFromHistory_ValueOnly(m, key) ==
    IF key \notin m.c.historyCache.mp
    THEN [m EXCEPT !.status = "panic"]
    ELSE LET i == IndexOf(m.c.historyCache.ll, key)
             kv == m.c.historyCache.ll[i]
         IN [m EXCEPT
               !.c.historyCache.ll = RemoveAt(@, i),
               !.c.historyCache.useBytes = @ - ValueLen(kv.value),
               !.c.historyCache.mp = @ \ {kv.key},
               !.c.historyCache.cnt = CntDelete(@, kv.key),
               !.aux.obs[kv.key] = 0,
               !.aux.ins = Without(@, kv.key),
               !.aux.touch = Without(@, kv.key)]

\* the removal of a promoted entry from the history queue (no callback);
\* ele.Value on the nil element of a missing key panics
RemoveFromHistory(m, key) ==
    IF key \notin m.c.historyCache.mp
    THEN [m EXCEPT !.status = "panic"]
    ELSE LET i == IndexOf(m.c.historyCache.ll, key)
             kv == m.c.historyCache.ll[i]
         IN [m EXCEPT
               !.c.historyCache.ll = RemoveAt(@, i),
               !.c.historyCache.useBytes = @ - (ValueLen(kv.value) + KeyLen(kv.key)),
               !.c.historyCache.mp = @ \ {kv.key},
               !.c.historyCache.cnt = CntDelete(@, kv.key),
               !.aux.obs[kv.key] = 0,
               !.aux.ins = Without(@, kv.key),
               !.aux.touch = Without(@, kv.key)]

\* Add on a main-resident key that keeps the old value
AddMainUpdate_KeepValue(m, key, value) ==
    LET i == IndexOf(m.c.ll, key)
    IN [m EXCEPT
          !.c.ll = MoveToFront(@, i),
          !.aux.path = "add_main",
          !.aux.age = Touch(@, key)]

\* Add, key in the main queue: move to front, replace the value in place.
AddMainUpdate(m, key, value) ==
    LET i == IndexOf(m.c.ll, key)
        kv == m.c.ll[i]
    IN [m EXCEPT
          !.c.ll = PushFront(RemoveAt(@, i), Entry(key, value)),
          !.c.useBytes = @ + ValueLen(value) - ValueLen(kv.value),
          !.aux.path = "add_main",
          !.aux.age = Touch(@, key)]

\* Add, key in neither queue: PushBack on the history list, count it, and
\* evict the oldest history entry once if the history budget is exceeded.
AddHistoryNew(m, key, value) ==
    LET m1 == [m EXCEPT
                 !.c.historyCache.ll = PushBack(@, Entry(key, value)),
                 !.c.historyCache.cnt = CntInc(@, key),
                 !.c.historyCache.mp = @ \cup {key},
                 !.c.historyCache.useBytes = @ + KeyLen(key) + ValueLen(value),
                 !.aux.path = "add_hist_new",
                 !.aux.obs[key] = 1,
                 !.aux.ins = Append(@, key),
                 !.aux.touch = Append(@, key)]
    IN IF m1.c.historyCache.maxBytes # 0
          /\ m1.c.historyCache.maxBytes < m1.c.historyCache.useBytes
       THEN RemoveHistoryCacheOldest(m1)
       ELSE m1

\* Add on a history-resident key that leaves the entry where it is
AddHistoryUpdate_NoMove(m, key, value) ==
    LET i == IndexOf(m.c.historyCache.ll, key)
        kv == m.c.historyCache.ll[i]
    IN [m EXCEPT
          !.c.historyCache.cnt = CntInc(@, key),
          !.c.historyCache.ll = [@ EXCEPT ![i] = Entry(key, value)],
          !.c.historyCache.useBytes = @ + ValueLen(value) - ValueLen(kv.value),
          !.aux.path = "add_hist_update",
          !.aux.obs[key] = @ + 1,
          !.aux.touch = Touch(@, key)]

\* Add, key in the history queue: count it, move to back, replace the value.
AddHistoryUpdate(m, key, value) ==
    LET i == IndexOf(m.c.historyCache.ll, key)
        kv == m.c.historyCache.ll[i]
    IN [m EXCEPT
          !.c.historyCache.cnt = CntInc(@, key),
          !.c.historyCache.ll = PushBack(RemoveAt(@, i), Entry(key, value)),
          !.c.historyCache.useBytes = @ + ValueLen(value) - ValueLen(kv.value),
          !.aux.path = "add_hist_update",
          !.aux.obs[key] = @ + 1,
          !.aux.touch = Touch(@, key)]

\* Add(key, value)
Add(m, key, value) ==
    IF key \in m.c.mp
    THEN AddMainUpdate(m, key, value)
    ELSE LET m1 == IF key \notin m.c.historyCache.mp
                   THEN AddHistoryNew(m, key, value)
                   ELSE AddHistoryUpdate(m, key, value)
         IN IF CntGet(m1.c.historyCache.cnt, key) >= m1.c.historyCache.k
            THEN RemoveFromHistory(AddToCache(m1, key, value), key)
            ELSE m1

\* Get on a main-resident key that does not refresh its recency
GetMainHit_NoMove(m, key) ==
    LET i == IndexOf(m.c.ll, key)
        kv == m.c.ll[i]
    IN [m EXCEPT
          !.ret = [value |-> kv.value, ok |-> TRUE],
          !.aux.path = "get_main",
          !.aux.age = Touch(@, key)]

\* Get, key in the main queue
GetMainHit(m, key) ==
    LET i == IndexOf(m.c.ll, key)
        kv == m.c.ll[i]
    IN [m EXCEPT
          !.c.ll = MoveToFront(@, i),
          !.ret = [value |-> kv.value, ok |-> TRUE],
          !.aux.path = "get_main",
          !.aux.age = Touch(@, key)]

\* the value Get hands to AddToCache on promotion: its named result `value`,
\* which nothing has assigned yet
GetPromotedValue(kv) == NilValue

\* Get on a history-resident key that leaves the entry where it is
GetHistoryHit_NoMove(m, key) ==
    LET m1 == [m EXCEPT
                 !.c.historyCache.cnt = CntInc(@, key),
                 !.aux.path = "get_hist",
                 !.aux.obs[key] = @ + 1]
        i == IndexOf(m.c.historyCache.ll, key)
        kv == m.c.historyCache.ll[i]
    IN IF CntGet(m1.c.historyCache.cnt, key) >= m1.c.historyCache.k
       THEN LET m2 == AddToCache(m1, key, GetPromotedValue(kv))
            IN IF m2.status # "ok"
               THEN m2
               ELSE [RemoveFromHistory(m2, key) EXCEPT !.ret = [value |-> kv.value, ok |-> TRUE]]
       ELSE [m1 EXCEPT
               !.ret = [value |-> kv.value, ok |-> TRUE],
               !.aux.touch = Touch(@, key)]

\* Get, key in the history queue only
GetHistoryHit(m, key) ==
    LET m1 == [m EXCEPT
                 !.c.historyCache.cnt = CntInc(@, key),
                 !.aux.path = "get_hist",
                 !.aux.obs[key] = @ + 1]
        i == IndexOf(m.c.historyCache.ll, key)
        kv == m.c.historyCache.ll[i]
    IN IF CntGet(m1.c.historyCache.cnt, key) >= m1.c.historyCache.k
       THEN LET m2 == AddToCache(m1, key, GetPromotedValue(kv))
            IN IF m2.status # "ok"
               THEN m2
               ELSE [RemoveFromHistory(m2, key) EXCEPT !.ret = [value |-> kv.value, ok |-> TRUE]]
       ELSE [m1 EXCEPT
               !.c.historyCache.ll = MoveToBack(@, i),
               !.ret = [value |-> kv.value, ok |-> TRUE],
               !.aux.touch = Touch(@, key)]

\* Get(key)
Get(m, key) ==
    IF key \in m.c.mp
    THEN GetMainHit(m, key)
    ELSE IF key \in m.c.historyCache.mp
         THEN GetHistoryHit(m, key)
         ELSE [m EXCEPT !.ret = NoRet, !.aux.path = "get_miss"]

\* ------------------------------------------------- the plain LRU cache
\* New(maxBytes, onEvicted) of the plain lru package, with the calls it has
\* made to OnEvicted during the last call and what the last call returned
PlainNew(maxBytes) ==
    [maxBytes |-> maxBytes,
     nbyBytes |-> 0,
     ll |-> <<>>,
     cache |-> {},
     OnEvicted |-> TRUE,
     evicted |-> <<>>,
     ret |-> NoRet]

\* no plain cache is kept
NoPlain == PlainNew(0)

PlainGet(p, key) ==
    IF key \in p.cache
    THEN LET i == IndexOf(p.ll, key)
         IN [p EXCEPT !.ll = MoveToFront(@, i),
                      !.ret = [value |-> p.ll[i].value, ok |-> TRUE]]
    ELSE [p EXCEPT !.ret = NoRet]

RemoveOldest(p) ==
    IF p.ll = <<>> THEN p
    ELSE LET kv == Back(p.ll)
         IN [p EXCEPT
               !.ll = RemoveAt(@, Len(@)),
               !.cache = @ \ {kv.key},
               !.nbyBytes = @ - (ValueLen(kv.value) + KeyLen(kv.key)),
               !.evicted = IF p.OnEvicted THEN Append(@, <<kv.key, kv.value>>) ELSE @]

\* for c.maxBytes != 0 && c.maxBytes < c.nbyBytes { c.RemoveOldest() }
RECURSIVE PlainEvictLoop(_)
PlainEvictLoop(p) ==
    IF p.maxBytes # 0 /\ p.maxBytes < p.nbyBytes /\ p.ll # <<>>
    THEN PlainEvictLoop(RemoveOldest(p))
    ELSE p

PlainAdd(p, key, value) ==
    PlainEvictLoop(
        IF key \in p.cache
        THEN LET i == IndexOf(p.ll, key)
                 kv == p.ll[i]
             IN [p EXCEPT
                   !.ll = MoveToFront([@ EXCEPT ![i].value = value], i),
                   !.nbyBytes = @ + ValueLen(value) - ValueLen(kv.value)]
        ELSE [p EXCEPT
                !.ll = PushFront(@, Entry(key, value)),
                !.cache = @ \cup {key},
                !.nbyBytes = @ + KeyLen(key) + ValueLen(value)])

PlainLen(p) == Len(p.ll)

\* the plain cache as a call finds it
PlainEnter == [plain EXCEPT !.evicted = <<>>, !.ret = NoRet]

\* ------------------------------------------------- the HTTP peer protocol
\* strings are sequences of one-character strings
MaxNameLen == 2
MaxRestLen == 3

defaultBasePath == <<"/", "_", "g", "e", "e", "c", "a", "c", "h", "e", "/">>
basePath == defaultBasePath

\* sequences over alphabet of length at most n
SeqsUpTo(alphabet, n) == UNION {[1..i -> alphabet] : i \in 0..n}

\* group names and keys a client may ask for
NameChars == {"g", "/", " ", "%"}
Names == SeqsUpTo(NameChars, MaxNameLen)

\* request paths (r.URL.Path) a peer may send: under the base path, and not
PathChars == {"g", "k", "/"}
Rests == SeqsUpTo(PathChars, MaxRestLen)
Paths ==
    {basePath \o r : r \in Rests}
        \cup (Rests \ {<<>>})
        \cup {SubSeq(basePath, 1, Len(basePath) - 1), <<"/", "g">> \o basePath}

HasPrefix(str, prefix) ==
    Len(str) >= Len(prefix) /\ SubSeq(str, 1, Len(prefix)) = prefix

\* strings.SplitN(str, "/", 2): cut at the first "/", if there is one
SplitN2(str) ==
    IF \E i \in 1..Len(str) : str[i] = "/"
    THEN LET i == CHOOSE i \in 1..Len(str) : str[i] = "/" /\ \A j \in 1..(i - 1) : str[j] # "/"
         IN <<SubSeq(str, 1, i - 1), SubSeq(str, i + 1, Len(str))>>
    ELSE <<str>>

\* url.QueryEscape: letters stay, a space becomes "+", the rest %XX
EscapeChar(ch) ==
    CASE ch = " " -> <<"+">>
      [] ch = "/" -> <<"%", "2", "F">>
      [] ch = "%" -> <<"%", "2", "5">>
      [] OTHER -> <<ch>>

RECURSIVE QueryEscape(_)
QueryEscape(str) ==
    IF str = <<>> THEN <<>> ELSE EscapeChar(Head(str)) \o QueryEscape(Tail(str))

\* how the URL's path is decoded on its way into r.URL.Path: %XX becomes the
\* byte, "+" stays "+"
RECURSIVE PathUnescape(_)
PathUnescape(str) ==
    IF str = <<>> THEN <<>>
    ELSE IF Len(str) >= 3 /\ SubSeq(str, 1, 3) = <<"%", "2", "F">>
         THEN <<"/">> \o PathUnescape(SubSeq(str, 4, Len(str)))
    ELSE IF Len(str) >= 3 /\ SubSeq(str, 1, 3) = <<"%", "2", "5">>
         THEN <<"%">> \o PathUnescape(SubSeq(str, 4, Len(str)))
    ELSE <<Head(str)>> \o PathUnescape(Tail(str))

\* the path of the URL httpGetter.Get builds: baseURL is peer + basePath
GetterPath(group, key) == basePath \o QueryEscape(group) \o QueryEscape(key)

\* the groups GetGroup knows, and what group.Get hands back: a view and an error
Groups == {<<"g">>}
NoErr == ""
Views == {<<>>, <<"v">>}
GetResults == {[view |-> v, err |-> e] : v \in Views, e \in {NoErr, "key not found"}}
NoResult == [view |-> <<>>, err |-> "not called"]
ByteSlice(v) == v

\* the http.ResponseWriter of one request: the status and Content-Type that
\* went out, the header map, the body, and the calls the handler made on it
NewResponse ==
    [code |-> 0, sent |-> FALSE, header |-> "", ctype |-> "", body |-> <<>>, calls |-> <<>>]

WriteHeader(w, code) ==
    IF w.sent THEN w ELSE [w EXCEPT !.code = code, !.sent = TRUE, !.ctype = w.header]

HeaderSet(w, ctype) ==
    [w EXCEPT !.header = ctype, !.calls = Append(@, "Header.Set")]

Write(w, bytes) ==
    [WriteHeader(w, 200) EXCEPT !.body = @ \o bytes, !.calls = Append(@, "Write")]

\* http.Error(w, msg, code)
HttpError(w, msg, code) ==
    [WriteHeader([w EXCEPT !.header = "text/plain"], code) EXCEPT
        !.body = @ \o <<msg>>, !.calls = Append(@, "Error")]

\* ServeHTTP(w, r) for r.URL.Path = path; res is what group.Get returns if
\* the handler gets that far
ServeHTTP(path, res) ==
    IF ~HasPrefix(path, basePath)
    THEN [panic |-> TRUE, parts |-> <<>>, got |-> NoResult, w |-> NewResponse]
    ELSE LET parts == SplitN2(SubSeq(path, Len(basePath) + 1, Len(path)))
         IN IF Len(parts) # 2
            THEN [panic |-> FALSE, parts |-> parts, got |-> NoResult,
                  w |-> HttpError(NewResponse, "bad request", 400)]
            ELSE IF parts[1] \notin Groups
            THEN [panic |-> FALSE, parts |-> parts, got |-> NoResult,
                  w |-> HttpError(NewResponse, "no such group", 404)]
            ELSE LET w1 == IF res.err # NoErr
                           THEN HttpError(NewResponse, res.err, 500)
                           ELSE NewResponse
                 IN [panic |-> FALSE, parts |-> parts, got |-> res,
                     w |-> Write(HeaderSet(w1, "application/octet-stream"),
                                 ByteSlice(res.view))]

NoAsk == [group |-> <<"-">>, key |-> <<"-">>]
NoReply == [bytes |-> <<>>, err |-> "none"]

HttpInit ==
    [alive |-> TRUE,       \* the serving process is running
     path |-> <<>>,        \* r.URL.Path of the last request
     panicked |-> FALSE,   \* the last request's handler panicked
     parts |-> <<>>,       \* what the handler split the path into
     got |-> NoResult,     \* what group.Get returned to the handler
     resp |-> NewResponse, \* the response to the last request
     ask |-> NoAsk,        \* the httpGetter.Get call behind the last request
     reply |-> NoReply]    \* what that call returned

\* the handler runs on path; whoever called it recovers from a panic or not
Served(path, res, recovers, ask) ==
    LET r == ServeHTTP(path, res)
    IN [alive |-> r.panic => recovers,
        path |-> path,
        panicked |-> r.panic,
        parts |-> r.parts,
        got |-> r.got,
        resp |-> r.w,
        ask |-> ask,
        reply |-> IF ask = NoAsk THEN NoReply
                  ELSE IF r.w.code # 200 THEN [bytes |-> <<>>, err |-> "server returned"]
                  ELSE [bytes |-> r.w.body, err |-> NoErr]]

\* a peer's request with this path, served by a caller that recovers from a
\* panicking handler (as net/http's server does)
Request(path) ==
    /\ http.alive
    /\ \E res \in GetResults : http' = Served(path, res, TRUE, NoAsk)
    /\ UNCHANGED <<lruVars, shard, reg>>

\* the same request under a caller that does not recover: the panic ends
\* the process
RequestCrash(path) ==
    /\ http.alive
    /\ ServeHTTP(path, NoResult).panic
    /\ http' = Served(path, NoResult, FALSE, NoAsk)
    /\ UNCHANGED <<lruVars, shard, reg>>

\* httpGetter.Get(group, key) against this server
HttpGetterGet(group, key) ==
    /\ http.alive
    /\ \E res \in GetResults :
          http' = Served(PathUnescape(GetterPath(group, key)), res, TRUE,
                         [group |-> group, key |-> key])
    /\ UNCHANGED <<lruVars, shard, reg>>

NextHTTP ==
    \/ \E path \in Paths : Request(path)
    \/ \E path \in Paths : RequestCrash(path)
    \/ \E group \in Names, key \in Names : HttpGetterGet(group, key)

\* ------------------------------------------------- the cache shard
NumThreads == 2
Threads == 1..NumThreads
NoThread == 0

\* c.lru: nil, or the lru.Cache that lru.New(c.cacheBytes, nil, 1) built
NilLru == [nil |-> TRUE, obj |-> [New(0, 1) EXCEPT !.OnEvicted = FALSE]]
LazyNew(cacheBytes) == [nil |-> FALSE, obj |-> [New(cacheBytes, 1) EXCEPT !.OnEvicted = FALSE]]

\* a goroutine outside the shard's methods
Idle == [pc |-> "idle", op |-> [kind |-> "none", key |-> 0, value |-> NilValue],
         snap |-> NilLru.obj, ret |-> NoRet]

ShardOps ==
    {[kind |-> "add", key |-> key, value |-> value] : key \in Keys, value \in Values}
        \cup {[kind |-> "get", key |-> key, value |-> NilValue] : key \in Keys}

\* the lru.Cache call of op on the object obj
LruCall(obj, op) ==
    LET m == [c |-> obj, evicted |-> <<>>, status |-> "ok", ret |-> NoRet,
              aux |-> [AuxInit EXCEPT !.mode = "shard"]]
        r == IF op.kind = "add" THEN Add(m, op.key, op.value) ELSE Get(m, op.key)
    IN [obj |-> r.c, ret |-> r.ret]

\* a whole add or get on a shard no one else is using
Sequential(lru, cacheBytes, op) ==
    IF op.kind = "add"
    THEN LET l == IF lru.nil THEN LazyNew(cacheBytes) ELSE lru
         IN [lru |-> [l EXCEPT !.obj = LruCall(l.obj, op).obj], ret |-> NoRet]
    ELSE IF lru.nil THEN [lru |-> lru, ret |-> NoRet]
         ELSE LET r == LruCall(lru.obj, op)
              IN [lru |-> [lru EXCEPT !.obj = r.obj], ret |-> r.ret]

ShardInit(cacheBytes) ==
    [mu |-> NoThread,           \* who holds c.mu
     lru |-> NilLru,            \* c.lru
     cacheBytes |-> cacheBytes,
     th |-> [t \in Threads |-> Idle],
     adder |-> NoThread,        \* whose add completed last
     ref |-> [lru |-> NilLru, ret |-> NoRet]]  \* the calls so far, one after the other in Lock order

NoShard == ShardInit(0)

\* c.mu.Lock() that returns although the mutex is held
LockFree_NoWait(s) == TRUE

\* c.mu.Lock() returns only when no one holds the mutex
LockFree(s) == s.mu = NoThread

\* goroutine t calls add or get, and its c.mu.Lock() returns
ShardLock(t, op) ==
    /\ shard.th[t].pc = "idle"
    /\ LockFree(shard)
    /\ shard' = [shard EXCEPT
                   !.mu = t,
                   !.th[t] = [Idle EXCEPT !.pc = "locked", !.op = op],
                   !.ref = Sequential(shard.ref.lru, shard.cacheBytes, op)]
    /\ UNCHANGED <<lruVars, http, reg>>

\* if c.lru == nil
NilCheck(t) ==
    /\ shard.th[t].pc = "locked"
    /\ shard' = [shard EXCEPT !.th[t].pc = IF shard.lru.nil THEN "sawnil" ELSE "ready"]
    /\ UNCHANGED <<lruVars, http, reg>>

\* add: c.lru = lru.New(c.cacheBytes, nil, 1)
Construct(t) ==
    /\ shard.th[t].pc = "sawnil"
    /\ shard.th[t].op.kind = "add"
    /\ shard' = [shard EXCEPT !.lru = LazyNew(shard.cacheBytes), !.th[t].pc = "ready"]
    /\ UNCHANGED <<lruVars, http, reg>>

\* get: the early return on a nil c.lru
GetNil(t) ==
    /\ shard.th[t].pc = "sawnil"
    /\ shard.th[t].op.kind = "get"
    /\ shard' = [shard EXCEPT !.th[t].pc = "done", !.th[t].ret = NoRet]
    /\ UNCHANGED <<lruVars, http, reg>>

\* c.lru.Add / c.lru.Get starts: it reads the queues and counters
LruBegin(t) ==
    /\ shard.th[t].pc = "ready"
    /\ shard' = [shard EXCEPT !.th[t].pc = "inside", !.th[t].snap = shard.lru.obj]
    /\ UNCHANGED <<lruVars, http, reg>>

\* c.lru.Add / c.lru.Get returns: it has written them
LruEnd(t) ==
    /\ shard.th[t].pc = "inside"
    /\ LET r == LruCall(shard.th[t].snap, shard.th[t].op)
       IN shard' = [shard EXCEPT
                      !.lru.obj = r.obj,
                      !.th[t].pc = "done",
                      !.th[t].snap = NilLru.obj,
                      !.th[t].ret = r.ret,
                      !.adder = IF shard.th[t].op.kind = "add" THEN t ELSE @]
    /\ UNCHANGED <<lruVars, http, reg>>

\* the deferred c.mu.Unlock(), and the return
Unlock(t) ==
    /\ shard.th[t].pc = "done"
    /\ shard' = [shard EXCEPT !.mu = NoThread, !.th[t] = Idle]
    /\ UNCHANGED <<lruVars, http, reg>>

NextShard ==
    \/ \E t \in Threads, op \in ShardOps : ShardLock(t, op)
    \/ \E t \in Threads : NilCheck(t)
    \/ \E t \in Threads : Construct(t)
    \/ \E t \in Threads : GetNil(t)
    \/ \E t \in Threads : LruBegin(t)
    \/ \E t \in Threads : LruEnd(t)
    \/ \E t \in Threads : Unlock(t)

\* ------------------------------------------------- the peer registry
NumPeers == 2
MaxSets == 2

\* peer addresses; this node's own is the first
Peers == 1..NumPeers
self == 1
NoPeer == 0

\* consistenthash.Map.Get: the first ring point at or after the key's hash,
\* wrapping around; the empty string on an empty ring
Owner(members, key) ==
    IF members = {} THEN NoPeer
    ELSE IF \E p \in members : p >= key
         THEN CHOOSE p \in members : p >= key /\ \A q \in members : q >= key => p <= q
         ELSE CHOOSE p \in members : \A q \in members : p <= q

\* &httpGetter{baseURL: peer + p.basePath}, and the nil a map read gives
\* for a missing peer
Getter(peer) == [baseURL |-> <<peer, basePath>>]
NilGetter == [baseURL |-> <<NoPeer, <<>>>>]
Lookup(getters, peer) == IF peer \in getters.members THEN Getter(peer) ELSE NilGetter

\* a worker outside every call
Free == [pc |-> "idle", key |-> 0, peers |-> {}, g |-> 0, owner |-> NoPeer,
         ok |-> FALSE, getter |-> NilGetter, rgen |-> 0, rdone |-> FALSE,
         mgen |-> 0, mdone |-> FALSE]

\* NewHTTPPool: no ring, no client map
RegInit ==
    [mu |-> NoThread,      \* who holds p.mu
     smu |-> NoThread,     \* who holds the cache shard's mu
     status |-> "ok",
     sets |-> 0,           \* Set calls so far
     peers |-> [nil |-> TRUE, gen |-> 0, members |-> {}, done |-> FALSE],
     httpGetters |-> [gen |-> 0, members |-> {}, done |-> FALSE],
     th |-> [t \in Threads |-> Free]]

\* PickPeer's test without the comparison with p.self
IsRemote_AnyPeer(peer) == peer # NoPeer

\* peer != "" && peer != p.self
IsRemote(peer) == peer # NoPeer /\ peer # self

\* p.mu.Lock() that returns although the mutex is held
RegLockFree_NoWait(r) == TRUE

\* p.mu.Lock() returns only when no one holds the mutex
RegLockFree(r) == r.mu = NoThread

\* a PickPeer that returns with p.mu still locked
DeferredUnlock_Kept(mu) == mu

\* PickPeer's defer p.mu.Unlock(): what p.mu is once the call has returned
DeferredUnlock(mu) == NoThread

\* Set(peers...): p.mu.Lock()
SetLock(t, peers) ==
    /\ reg.status = "ok"
    /\ reg.th[t].pc = "idle"
    /\ reg.sets < MaxSets
    /\ RegLockFree(reg)
    /\ reg' = [reg EXCEPT !.mu = t, !.sets = @ + 1,
                          !.th[t] = [Free EXCEPT !.pc = "set_new", !.peers = peers, !.g = reg.sets + 1]]
    /\ UNCHANGED <<lruVars, http, shard>>

\* p.peers = consistenthash.New(defaultReplicas, nil)
SetNewRing(t) ==
    /\ reg.status = "ok"
    /\ reg.th[t].pc = "set_new"
    /\ reg' = [reg EXCEPT
                 !.peers = [nil |-> FALSE, gen |-> reg.th[t].g, members |-> {}, done |-> FALSE],
                 !.th[t].pc = "set_add"]
    /\ UNCHANGED <<lruVars, http, shard>>

\* p.peers.Add(peers...)
SetRingAdd(t) ==
    /\ reg.status = "ok"
    /\ reg.th[t].pc = "set_add"
    /\ reg' = [reg EXCEPT !.peers.members = reg.th[t].peers, !.peers.done = TRUE,
                          !.th[t].pc = "set_make"]
    /\ UNCHANGED <<lruVars, http, shard>>

\* p.httpGetters = make(map[string]*httpGetter, len(peers))
SetMakeMap(t) ==
    /\ reg.status = "ok"
    /\ reg.th[t].pc = "set_make"
    /\ reg' = [reg EXCEPT
                 !.httpGetters = [gen |-> reg.th[t].g, members |-> {},
                                  done |-> reg.th[t].peers = {}],
                 !.th[t].pc = "set_loop"]
    /\ UNCHANGED <<lruVars, http, shard>>

\* one round of the loop: p.httpGetters[peer] = &httpGetter{...}
SetLoop(t) ==
    /\ reg.status = "ok"
    /\ reg.th[t].pc = "set_loop"
    /\ reg.th[t].peers \ reg.httpGetters.members # {}
    /\ LET rest == reg.th[t].peers \ reg.httpGetters.members
           peer == CHOOSE p \in rest : \A q \in rest : p <= q
       IN reg' = [reg EXCEPT !.httpGetters.members = @ \cup {peer},
                             !.httpGetters.done = (rest = {peer})]
    /\ UNCHANGED <<lruVars, http, shard>>

\* the loop is over: Set returns, the deferred p.mu.Unlock() runs
SetReturn(t) ==
    /\ reg.status = "ok"
    /\ reg.th[t].pc = "set_loop"
    /\ reg.th[t].peers \ reg.httpGetters.members = {}
    /\ reg' = [reg EXCEPT !.mu = NoThread, !.th[t] = Free]
    /\ UNCHANGED <<lruVars, http, shard>>

\* PickPeer(key): p.mu.Lock()
PickLock(t, key) ==
    /\ reg.status = "ok"
    /\ reg.th[t].pc = "idle"
    /\ RegLockFree(reg)
    /\ reg' = [reg EXCEPT !.mu = t, !.th[t] = [Free EXCEPT !.pc = "pick_ring", !.key = key]]
    /\ UNCHANGED <<lruVars, http, shard>>

\* peer := p.peers.Get(key), and the test on it
PeersGet(t) ==
    /\ reg.status = "ok"
    /\ reg.th[t].pc = "pick_ring"
    /\ ~reg.peers.nil
    /\ LET peer == Owner(reg.peers.members, reg.th[t].key)
       IN reg' = [reg EXCEPT
                    !.th[t].owner = peer,
                    !.th[t].rgen = reg.peers.gen,
                    !.th[t].rdone = reg.peers.done,
                    !.th[t].pc = IF IsRemote(peer) THEN "pick_map" ELSE "pick_ret"]
    /\ UNCHANGED <<lruVars, http, shard>>

\* p.peers.Get(key) before any Set, on the nil *consistenthash.Map: the
\* method dereferences nil and panics, or treats it as an empty ring
PeersGetNil(t) ==
    /\ reg.status = "ok"
    /\ reg.th[t].pc = "pick_ring"
    /\ reg.peers.nil
    /\ \E panics \in BOOLEAN :
          reg' = IF panics THEN [reg EXCEPT !.status = "panic"]
                 ELSE [reg EXCEPT !.th[t].pc = "pick_ret"]
    /\ UNCHANGED <<lruVars, http, shard>>

\* return p.httpGetters[peer], true: the map read
GettersRead(t) ==
    /\ reg.status = "ok"
    /\ reg.th[t].pc = "pick_map"
    /\ reg' = [reg EXCEPT
                 !.th[t].getter = Lookup(reg.httpGetters, reg.th[t].owner),
                 !.th[t].ok = TRUE,
                 !.th[t].mgen = reg.httpGetters.gen,
                 !.th[t].mdone = reg.httpGetters.done,
                 !.th[t].pc = "pick_ret"]
    /\ UNCHANGED <<lruVars, http, shard>>

\* PickPeer returns, the deferred p.mu.Unlock() runs; with a remote peer the
\* worker goes on to fetch from it, otherwise it serves the key itself
PickReturn(t) ==
    /\ reg.status = "ok"
    /\ reg.th[t].pc = "pick_ret"
    /\ reg' = [reg EXCEPT !.mu = DeferredUnlock(@),
                          !.th[t] = IF reg.th[t].ok THEN [Free EXCEPT !.pc = "remote"] ELSE Free]
    /\ UNCHANGED <<lruVars, http, shard>>

\* httpGetter.Get: the request goes out
FetchBegin(t) ==
    /\ reg.status = "ok"
    /\ reg.th[t].pc = "remote"
    /\ reg' = [reg EXCEPT !.th[t].pc = "fetching"]
    /\ UNCHANGED <<lruVars, http, shard>>

\* httpGetter.Get: the peer has answered (if it ever does); the worker may
\* then put the value in the local shard
FetchEnd(t) ==
    /\ reg.status = "ok"
    /\ reg.th[t].pc = "fetching"
    /\ \E populate \in BOOLEAN :
          reg' = [reg EXCEPT !.th[t].pc = IF populate THEN "fetched" ELSE "idle"]
    /\ UNCHANGED <<lruVars, http, shard>>

\* cache.add / cache.get: c.mu.Lock(), by a worker with a fetched value or
\* by one with a local call
CacheLock(t) ==
    /\ reg.status = "ok"
    /\ reg.th[t].pc \in {"idle", "fetched"}
    /\ reg.smu = NoThread
    /\ reg' = [reg EXCEPT !.smu = t, !.th[t].pc = "in_cache"]
    /\ UNCHANGED <<lruVars, http, shard>>

\* cache.add / cache.get returns: the deferred c.mu.Unlock()
CacheUnlock(t) ==
    /\ reg.status = "ok"
    /\ reg.th[t].pc = "in_cache"
    /\ reg' = [reg EXCEPT !.smu = NoThread, !.th[t].pc = "idle"]
    /\ UNCHANGED <<lruVars, http, shard>>

NextReg ==
    \/ \E t \in Threads, peers \in SUBSET Peers : SetLock(t, peers)
    \/ \E t \in Threads : SetNewRing(t)
    \/ \E t \in Threads : SetRingAdd(t)
    \/ \E t \in Threads : SetMakeMap(t)
    \/ \E t \in Threads : SetLoop(t)
    \/ \E t \in Threads : SetReturn(t)
    \/ \E t \in Threads, key \in Keys : PickLock(t, key)
    \/ \E t \in Threads : PeersGet(t)
    \/ \E t \in Threads : PeersGetNil(t)
    \/ \E t \in Threads : GettersRead(t)
    \/ \E t \in Threads : PickReturn(t)
    \/ \E t \in Threads : FetchBegin(t)
    \/ \E t \in Threads : FetchEnd(t)
    \/ \E t \in Threads : CacheLock(t)
    \/ \E t \in Threads : CacheUnlock(t)

\* ------------------------------------------------- the state machine
\* the object as a call finds it
Enter ==
    [c |-> c, evicted |-> <<>>, status |-> status, ret |-> NoRet,
     aux |-> [aux EXCEPT !.removed = <<>>, !.promo = <<>>]]

Leave(m) ==
    /\ c' = m.c
    /\ evicted' = m.evicted
    /\ status' = m.status
    /\ ret' = m.ret
    /\ aux' = [m.aux EXCEPT !.ins = IF m.aux.mode = "fifo" THEN @ ELSE <<>>]

\* the last value added under key, and whether it replaced a different one
Written(m, key, value) ==
    IF m.aux.mode # "rw" THEN m
    ELSE [m EXCEPT !.aux.written[key] =
            [value |-> value, again |-> @.again \/ (@.value # NilValue /\ @.value # value)]]

InitWith(budgets, ks, mode) ==
    /\ \E maxBytes \in budgets, k \in ks :
          /\ c = New(maxBytes, k)
          /\ plain = IF mode = "pair" THEN PlainNew(maxBytes) ELSE NoPlain
    /\ evicted = <<>>
    /\ status = "ok"
    /\ ret = NoRet
    /\ last = [op |-> "New", key |-> 0]
    /\ aux = [AuxInit EXCEPT !.mode = mode]
    /\ http = HttpInit
    /\ shard = NoShard
    /\ reg = RegInit

\* any budget (0 = unlimited) and any k
Init == InitWith(0..MaxBytesBound, 1..MaxK, "base")

CallAdd(key, value) ==
    /\ status = "ok"
    /\ Leave(Written(Add(Enter, key, value), key, value))
    /\ last' = [op |-> "Add", key |-> key]
    /\ plain' = IF aux.mode = "pair" THEN PlainAdd(PlainEnter, key, value) ELSE plain
    /\ UNCHANGED peerVars

CallGet(key) ==
    /\ status = "ok"
    /\ Leave(Get(Enter, key))
    /\ last' = [op |-> "Get", key |-> key]
    /\ plain' = IF aux.mode = "pair" THEN PlainGet(PlainEnter, key) ELSE plain
    /\ UNCHANGED peerVars

Next ==
    \/ \E key \in Keys, value \in Values : CallAdd(key, value)
    \/ \E key \in Keys : CallGet(key)

Spec == Init /\ [][Next]_vars

\* a bounded history queue, recording the insertion order of its keys
InitFifo == InitWith(1..MaxBytesBound, 1..MaxK, "fifo")
SpecFifo == InitFifo /\ [][Next]_vars

\* New(0, onEvicted, 1) as in TestGet, recording the last Add of each key
InitRW == InitWith({0}, {1}, "rw")
SpecRW == InitRW /\ [][Next]_vars

\* k = 1 next to a plain LRU cache with the same budget, given the same calls
InitPair == InitWith(0..MaxBytesBound, {1}, "pair")
SpecPair == InitPair /\ [][Next]_vars

\* the handler of one HTTPPool, and an httpGetter pointed at it
InitHTTP == InitWith({0}, {1}, "http")
SpecHTTP == InitHTTP /\ [][NextHTTP]_vars

\* one shard (cache) with any cacheBytes, called by several goroutines
InitShard ==
    /\ c = New(0, 1)
    /\ evicted = <<>>
    /\ status = "ok"
    /\ ret = NoRet
    /\ last = [op |-> "New", key |-> 0]
    /\ aux = [AuxInit EXCEPT !.mode = "shard"]
    /\ plain = NoPlain
    /\ http = HttpInit
    /\ \E cacheBytes \in 0..MaxBytesBound : shard = ShardInit(cacheBytes)
    /\ reg = RegInit
SpecShard == InitShard /\ [][NextShard]_vars

\* one HTTPPool's registry, with workers that reconfigure it, pick peers,
\* fetch from them and use the local cache shard
InitReg == InitWith({0}, {1}, "reg")
SpecReg == InitReg /\ [][NextReg]_vars

\* ------------------------------------------------- properties
KeysOf(l) == {l[i].key : i \in DOMAIN l}
NoDup(l) == \A i, j \in DOMAIN l : l[i].key = l[j].key => i = j
StoredIn(l, key) == l[IndexOf(l, key)].value
GetCall(key) == last'.op = "Get" /\ last'.key = key
MainRemovals == {i \in DOMAIN aux.removed : aux.removed[i].queue = "main"}
HistoryRemovals == {i \in DOMAIN aux.removed : aux.removed[i].queue = "history"}
\* the keys the next budget-driven history eviction would remove
VictimOf(m) == m.c.historyCache.mp \ RemoveHistoryCacheOldest(m).c.historyCache.mp

\* C1: after each completed call on a cache with maxBytes > 0, the main
\* queue's used bytes are at most maxBytes.
MainBudget ==
    (status = "ok" /\ c.maxBytes > 0) => c.useBytes <= c.maxBytes

\* C2: after each completed call on a cache with maxBytes > 0 and k >= 2, the
\* history queue's used bytes are at most its maxBytes.
HistoryBudget ==
    (status = "ok" /\ c.historyCache.maxBytes > 0 /\ c.historyCache.k >= 2)
        => c.historyCache.useBytes <= c.historyCache.maxBytes

\* C3: in every reachable state no key is in both the main queue and the
\* history queue, and each key is at most once in each queue.
Disjointness ==
    /\ c.mp \cap c.historyCache.mp = {}
    /\ KeysOf(c.ll) \cap KeysOf(c.historyCache.ll) = {}
    /\ NoDup(c.ll)
    /\ NoDup(c.historyCache.ll)

\* What does hold of C3: the queues are disjoint after every call that returned.
DisjointAfterReturn == status = "ok" => Disjointness

\* C4: for k >= 2, a Get of a history-resident key that raises its hit counter
\* to k returns (stored value, true) without panicking and moves the entry,
\* with its stored value, from history into main, where the next Get finds it.
GetPromotes ==
    [][\A key \in Keys :
         (/\ GetCall(key)
          /\ c.historyCache.k >= 2
          /\ key \notin c.mp
          /\ key \in c.historyCache.mp
          /\ CntGet(c.historyCache.cnt, key) + 1 >= c.historyCache.k)
         => /\ status' = "ok"
            /\ ret' = [value |-> StoredIn(c.historyCache.ll, key), ok |-> TRUE]
            /\ key \in c'.mp
            /\ key \notin c'.historyCache.mp
            /\ StoredIn(c'.ll, key) = StoredIn(c.historyCache.ll, key)
            /\ Get(Enter, key)'.aux.path = "get_main"
            /\ Get(Enter, key)'.ret = ret']_vars

\* C5: whenever a key is inserted into the main queue, it has been observed
\* (by Add or Get) at least k times during its current residence in history.
PromotionObserved ==
    \A i \in DOMAIN aux.promo : aux.promo[i].seen >= c.historyCache.k

PromotionObservedWitness ==
    /\ status = "ok"
    /\ c.historyCache.k >= 2
    /\ aux.path = "add_hist_update"
    /\ aux.promo # <<>>

\* C6: every budget-driven eviction from the main queue removes the entry
\* whose last access (promotion, Get hit, Add update) is the oldest.
MainEvictsLRU ==
    \A i \in MainRemovals : aux.removed[i].key = aux.removed[i].lru

\* k = 1, two entries fit: the third Add leaves the two newest in main.
MainEvictsLRUWitness ==
    /\ status = "ok"
    /\ c.historyCache.k = 1
    /\ last.op = "Add"
    /\ Cardinality(MainRemovals) = 1
    /\ Len(c.ll) = 2
    /\ c.ll[1].key = last.key

\* C7: OnEvicted is invoked once for each entry a budget-driven eviction
\* removes from either queue, in removal order, with that entry's key and
\* value, and not for an entry that leaves history by promotion.
EvictionCallback ==
    /\ evicted = [i \in DOMAIN aux.removed |-> <<aux.removed[i].key, aux.removed[i].value>>]
    /\ \A i \in DOMAIN evicted : \A j \in DOMAIN evicted : evicted[i][1] = evicted[j][1] => i = j
    /\ (aux.promo # <<>> /\ aux.removed = <<>>) => evicted = <<>>

EvictionCallbackWitness ==
    /\ status = "ok"
    /\ aux.promo # <<>>
    /\ Len(evicted) = 2
    /\ Len(c.ll) = 1

\* C8 as claimed: every budget-driven eviction from the history queue removes
\* the oldest-inserted entry, whatever hits happened in between.
HistoryEvictsOldestInserted ==
    \A i \in HistoryRemovals : aux.removed[i].key = aux.removed[i].ins

\* C8 as amended: every budget-driven eviction from the history queue removes
\* the entry whose last insertion or hit (Add update, Get hit below k) is the
\* oldest: a hit moves the entry to the back of the queue.
HistoryEvictsLeastRecentlyTouched ==
    \A i \in HistoryRemovals : aux.removed[i].key = aux.removed[i].touch

HistoryEvictsWitness ==
    /\ status = "ok"
    /\ \E i \in HistoryRemovals :
         /\ aux.removed[i].key = aux.removed[i].touch
         /\ aux.removed[i].key # aux.removed[i].ins

\* a Get that hits a history-resident key and leaves its counter below k
GetBelowK(key) ==
    /\ GetCall(key)
    /\ key \notin c.mp
    /\ key \in c.historyCache.mp
    /\ CntGet(c.historyCache.cnt, key) + 1 < c.historyCache.k

\* C9 as claimed: such a Get returns (stored value, true) and makes the key
\* the entry the next budget-driven history eviction removes.
GetHitIsNextVictim ==
    [][\A key \in Keys :
         GetBelowK(key)
         => /\ status' = "ok"
            /\ ret' = [value |-> StoredIn(c.historyCache.ll, key), ok |-> TRUE]
            /\ VictimOf(Enter)' = {key}]_vars

\* C9 as amended: such a Get returns (stored value, true) and moves the key to
\* the back of the history queue, making it the last eviction candidate: the
\* other entries keep their order and every one of them is evicted before it.
GetHitIsLastVictim ==
    [][\A key \in Keys :
         GetBelowK(key)
         => /\ status' = "ok"
            /\ ret' = [value |-> StoredIn(c.historyCache.ll, key), ok |-> TRUE]
            /\ Back(c'.historyCache.ll).key = key
            /\ c'.historyCache.ll =
                 MoveToBack(c.historyCache.ll, IndexOf(c.historyCache.ll, key))
            /\ Len(c'.historyCache.ll) > 1 => VictimOf(Enter)' # {key}]_vars

GetHitIsLastVictimWitness ==
    /\ status = "ok"
    /\ last.op = "Get"
    /\ aux.path = "get_hist"
    /\ aux.promo = <<>>
    /\ ret.ok
    /\ Len(c.historyCache.ll) >= 2

\* what Get must return for key, by the Adds made so far
Expected(key) ==
    IF aux.written[key].value = NilValue
    THEN NoRet
    ELSE [value |-> aux.written[key].value, ok |-> TRUE]

\* C10: with k = 1 and maxBytes = 0, Get(key) returns (v, true) for the v of
\* the most recent Add(key, v), and found = false for a key never added.
ReadYourWrite ==
    /\ last.op = "Get" => ret = Expected(last.key)
    /\ \A key \in Keys : Get(Enter, key).ret = Expected(key)

ReadYourWriteWitness ==
    /\ status = "ok"
    /\ last.op = "Get"
    /\ ret.ok
    /\ aux.written[last.key].again
    /\ \E key \in Keys : ~Get(Enter, key).ret.ok
\* the bytes of a queue's entries: key length + value length of each
RECURSIVE SumBytes(_)
SumBytes(l) ==
    IF l = <<>> THEN 0
    ELSE KeyLen(Head(l).key) + ValueLen(Head(l).value) + SumBytes(Tail(l))

\* C17: after every completed Add or Get, each queue's used-bytes counter is
\* the sum of key length + value length over the entries now in that queue
\* (so it is never negative, and 0 for an empty queue).
ByteAccounting ==
    status = "ok" =>
        /\ c.useBytes = SumBytes(c.ll)
        /\ c.historyCache.useBytes = SumBytes(c.historyCache.ll)
        /\ c.useBytes >= 0
        /\ c.historyCache.useBytes >= 0

ByteAccountingWitness ==
    /\ status = "ok"
    /\ aux.promo # <<>>
    /\ MainRemovals # {}
    /\ c.useBytes > 0
    /\ c.historyCache.useBytes > 0

\* an Add of (key, value) that does not fit a nonzero budget
TooBig(key, value) ==
    c.maxBytes # 0 /\ KeyLen(key) + ValueLen(value) > c.maxBytes

\* what Add(key, value) does to this state: main queue untouched, and one
\* OnEvicted call, for the entry offered
Rejected(key, value) ==
    LET m == Add(Enter, key, value)
    IN /\ m.status = "ok"
       /\ m.c.ll = c.ll
       /\ m.c.mp = c.mp
       /\ m.evicted = << <<key, value>> >>

\* with k = 1 a completed call leaves nothing in the history queue
HistoryUnused ==
    /\ c.historyCache.ll = <<>>
    /\ c.historyCache.mp = {}
    /\ c.historyCache.useBytes = 0
    /\ DOMAIN c.historyCache.cnt = {}
    /\ aux.path # "get_hist"

\* C20 as claimed: with k = 1, after every completed call the history queue is
\* empty with 0 bytes and no counter, no Get takes the history path, and every
\* Add whose key + value size exceeds a nonzero maxBytes leaves the main queue
\* unchanged and fires OnEvicted once, for the rejected entry.
K1RejectsEveryTooBig ==
    (status = "ok" /\ c.historyCache.k = 1) =>
        /\ HistoryUnused
        /\ \A key \in Keys, value \in Values : TooBig(key, value) => Rejected(key, value)

\* C20 as amended: the same, for an Add of a key that is not in the main queue.
K1RejectsNewTooBig ==
    (status = "ok" /\ c.historyCache.k = 1) =>
        /\ HistoryUnused
        /\ \A key \in Keys, value \in Values :
             (TooBig(key, value) /\ key \notin c.mp) => Rejected(key, value)

K1RejectsWitness ==
    /\ status = "ok"
    /\ c.historyCache.k = 1
    /\ last.op = "Add"
    /\ c.ll # <<>>
    /\ last.key \notin c.mp
    /\ Len(evicted) = 1
    /\ evicted[1][1] = last.key
    /\ HistoryRemovals = {1}

\* the keys of a sequence of OnEvicted calls
EvictedKeys(ev) == [i \in 1..Len(ev) |-> ev[i][1]]

\* C11: with k = 1 the history-augmented cache and the plain LRU cache with
\* the same maxBytes, given the same calls, return the same Get results,
\* report the same Len, hold the same main-queue entries in the same recency
\* order, and call OnEvicted with the same keys in the same order.
K1SameAsPlainLRU ==
    (aux.mode = "pair" /\ status = "ok") =>
        /\ ret = plain.ret
        /\ Len(c.ll) = PlainLen(plain)
        /\ c.ll = plain.ll
        /\ EvictedKeys(evicted) = EvictedKeys(plain.evicted)

\* C13: a request whose path does not start with the base path gets a
\* client-error (4xx) response, its handler does not panic, and the serving
\* process stays up for later requests.
BadPathIsClientError ==
    (http.path # <<>> /\ ~HasPrefix(http.path, basePath)) =>
        /\ http.resp.code \in 400..499
        /\ ~http.panicked
        /\ http.alive

\* C14: the path httpGetter.Get builds for (group, key) is split by the
\* handler into exactly two segments, that group and that key, and is not
\* answered as a bad request.
PathRoundTrip ==
    http.ask # NoAsk =>
        /\ http.parts = <<http.ask.group, http.ask.key>>
        /\ http.resp.code # 400

\* C18: when group.Get fails, the response is status 500 with the error text
\* as its body, and the handler makes no further call on the response: no
\* Content-Type of the success path, no write of value bytes.
GetFailureStops ==
    (http.got # NoResult /\ http.got.err # NoErr) =>
        /\ http.resp.code = 500
        /\ http.resp.body = <<http.got.err>>
        /\ http.resp.calls = <<"Error">>

\* the goroutines between Lock and Unlock
InShard == {t \in Threads : shard.th[t].pc # "idle"}

\* C12: at most one goroutine at a time is between the shard's Lock and
\* Unlock, where c.lru is tested, constructed and called, and that goroutine
\* holds c.mu; what each call returns and what it leaves in c.lru are what
\* the calls give when run one after the other in the order of their Locks.
ShardSerialized ==
    /\ Cardinality(InShard) <= 1
    /\ \A t \in InShard : shard.mu = t
    /\ \A t \in Threads :
         shard.th[t].pc = "inside" => shard.th[t].snap = shard.lru.obj
    /\ \A t \in Threads :
         shard.th[t].pc = "done" =>
            /\ shard.th[t].ret = shard.ref.ret
            /\ shard.lru = shard.ref.lru
    /\ shard.mu = NoThread => shard.lru = shard.ref.lru

\* a goroutine has got, from a full cache, what another goroutine added
ShardSerializedWitness ==
    \E t \in Threads :
        /\ shard.th[t].pc = "done"
        /\ shard.th[t].op.kind = "get"
        /\ shard.th[t].ret.ok
        /\ shard.adder \notin {t, NoThread}
        /\ shard.cacheBytes # 0
        /\ shard.lru.obj.useBytes = shard.cacheBytes

\* the workers whose PickPeer has its result and is about to return
Picked == {t \in Threads : reg.th[t].pc = "pick_ret"}

\* C16: once a Set has been made, PickPeer(key) returns (nil, false) when the
\* ring's owner of the key is empty or this node's own address, and otherwise
\* (client, true) with the client registered for that owner, which exists;
\* it never returns true for this node's own address.
PickPeerResult ==
    \A t \in Picked :
        ~reg.peers.nil =>
            LET peer == Owner(reg.peers.members, reg.th[t].key)
            IN /\ (peer = NoPeer \/ peer = self) =>
                     (~reg.th[t].ok /\ reg.th[t].getter = NilGetter)
               /\ (peer # NoPeer /\ peer # self) =>
                     /\ reg.th[t].ok
                     /\ reg.th[t].getter = Getter(peer)
                     /\ reg.th[t].getter # NilGetter
               /\ ~(reg.th[t].ok /\ reg.th[t].owner = self)

PickPeerResultWitness ==
    /\ \E t \in Picked : reg.th[t].ok /\ reg.th[t].getter = Getter(reg.th[t].owner)
    /\ self \in reg.peers.members
    /\ reg.sets = MaxSets

\* C19: a PickPeer never runs while a Set is under way, and the ring and the
\* client map it reads are those one and the same Set call left behind,
\* each fully built.
AtomicReconfiguration ==
    /\ \A t \in Threads :
         reg.th[t].pc \in {"pick_ring", "pick_map", "pick_ret"} =>
            \A u \in Threads : reg.th[u].pc \notin {"set_new", "set_add", "set_make", "set_loop"}
    /\ \A t \in Picked :
         /\ reg.th[t].rgen # 0 => reg.th[t].rdone
         /\ reg.th[t].ok =>
              /\ reg.th[t].mgen = reg.th[t].rgen
              /\ reg.th[t].mdone
              /\ reg.th[t].rgen = reg.peers.gen
              /\ reg.th[t].mgen = reg.httpGetters.gen

\* a PickPeer has read the ring and the map of the second Set
AtomicReconfigurationWitness ==
    \E t \in Picked :
        /\ reg.th[t].ok
        /\ reg.th[t].rgen = MaxSets
        /\ reg.th[t].mgen = MaxSets
        /\ \E u \in Threads \ {t} : reg.th[u].pc = "fetching"

\* C15: a worker in the remote-fetch round trip holds neither the registry's
\* lock nor the cache shard's, so while it waits the others can still take
\* them: nothing a silent peer holds up is needed by PickPeer, Set, add or get.
NoLockAcrossNetwork ==
    /\ \A t \in Threads :
         reg.th[t].pc \in {"remote", "fetching"} => (reg.mu # t /\ reg.smu # t)
    /\ reg.mu # NoThread =>
         reg.th[reg.mu].pc \in {"set_new", "set_add", "set_make", "set_loop",
                                "pick_ring", "pick_map", "pick_ret"}
    /\ reg.smu # NoThread => reg.th[reg.smu].pc = "in_cache"

\* one worker waits for a peer while another is inside PickPeer, holding the
\* registry lock
NoLockAcrossNetworkWitness ==
    \E t \in Threads, u \in Threads :
        /\ reg.th[t].pc = "fetching"
        /\ u # t
        /\ reg.mu = u
        /\ reg.th[u].pc = "pick_map"
====
